---- MODULE Spec2Model ----
(***************************************************************************)
(* Model of the crypto_signal_panel scanning engine:                       *)
(*   scanner.py   SignalScanner.run / _init_exchanges / _load_markets /    *)
(*                _watch_pair  (one asyncio task per PairState)            *)
(*   strategy.py  StrategyState, _market_flow, _trend_rider (the vix       *)
(*                spike output), compute_signal, rsi                       *)
(*   main.py      start_scanner_thread and the dashboard script's drain    *)
(*                of the two queues                                        *)
(*                                                                         *)
(* Python values.  Optional values are sets: None is {} and a value v is   *)
(* {v}.  A status dict is a record with every field; the set `keys` holds  *)
(* the keys the dict really has, an absent key reads as None (dict.get).   *)
(*                                                                         *)
(* Candle windows.  The indicator arithmetic is floating point over up to  *)
(* 500 rows.  A window is represented by what compute_signal's entry       *)
(* resolution reads from it: its length, whether the composite chips value *)
(* of the last bar exceeds the alert threshold once its rolling windows    *)
(* are filled (chips), and whether the fear index of the last bar reaches  *)
(* its band or range threshold once those are data dependent (vix).  The   *)
(* rolling windows' min_periods (NaN below the period) are modelled by     *)
(* is_raw_accumulation and is_vix_spike.  The float outputs (prices,       *)
(* target, stop, strength) are left out of Signal records.                 *)
(***************************************************************************)
EXTENDS Integers, Sequences, FiniteSets, TLC

VARIABLES
    config,          \* SignalScanner.config: the symbols, timeframes and exchange keys
    exchange_type,   \* SignalScanner.exchange_type
    use_ccxt_pro,    \* SignalScanner.use_ccxt_pro
    ccxtpro,         \* module-level import: TRUE iff ccxtpro is not None
    timeframes,      \* SignalScanner.timeframes
    whitelist,       \* SignalScanner.whitelist (already minus blacklist)
    mode,            \* SignalScanner.mode
    pairs,           \* SignalScanner.pairs: sequence of PairState
    run_pc,          \* position of the coroutine run()
    pc,              \* position of each _watch_pair task, by index in pairs
    locals,          \* each task's local variables last_ts and sig
    signal_queue,    \* every dict put on signal_queue, in order
    status_queue,    \* every dict put on status_queue, in order
    ui_pc,           \* main.py: position of the dashboard script in its queue drain
    new_signals,     \* main.py: the script's local list new_signals
    sig_read,        \* number of dicts the script has taken from signal_queue
    stat_read,       \* number of dicts the script has taken from status_queue
    pair_status,     \* st.session_state.pair_status: dict from pair key to status
    history,         \* st.session_state.history
    session_open,    \* the dashboard session that started the scanner thread is open
    close,           \* a close price series handed to an indicator
    rsi_out,         \* the series rsi returned for it, None before the call
    cs_in,           \* a strategy state and two windows handed to compute_signal
    cs_out,          \* what compute_signal returned for each window, None before
    candle_raw       \* the exchange's candles: the raw accumulation flag of each

vars == <<config, exchange_type, use_ccxt_pro, ccxtpro, timeframes, whitelist, mode,
          pairs, run_pc, pc, locals, signal_queue, status_queue,
          ui_pc, new_signals, sig_read, stat_read, pair_status, history, session_open,
          close, rsi_out, cs_in, cs_out, candle_raw>>

config_vars == <<config, exchange_type, use_ccxt_pro, ccxtpro, timeframes, whitelist>>

\* The state of the dashboard script (main.py).
ui_vars == <<ui_pc, new_signals, sig_read, stat_read, pair_status, history, session_open>>

\* The state of the scanner's event loop.
scanner_vars == <<mode, pairs, run_pc, pc, locals>>

\* The input and the output of an indicator call made on its own.
calc_vars == <<close, rsi_out, cs_in, cs_out>>

(***************************************************************************)
(* Bounds of the model.                                                    *)
(***************************************************************************)
\* Number of new closed candles delivered, over all pairs, when two pair
\* tasks interleave.
MaxSessionBars == 3
\* Largest candle timestamp a fetch delivers to the single spot pair task.
MaxBars == 4
\* Longest symbol whitelist and longest timeframe list of a configuration.
MaxSymbols == 2
MaxTimeframes == 2
\* Number of new closed candles delivered, over all pairs, while the dashboard
\* script drains the queues.
MaxUIBars == 2
\* Longest close series and largest close price handed to rsi.
MaxCloses == 4
MaxPrice == 3
\* Number of candles of the exchange's series whose raw flags are followed.
MaxSeriesBars == 3
\* Largest accumulation streak of a strategy state handed to compute_signal.
MaxStreak == 2

(***************************************************************************)
(* Program constants.                                                      *)
(***************************************************************************)
low_lookback_cm6 == 60
chips_confirmation_bars == 2
pd_len == 22
bbl == 20

None == {}
Some(v) == {v}
Get(opt) == CHOOSE v \in opt : TRUE

\* Window lengths a fetch may deliver: below every period, at the band
\* period, just past the fear index period, at and past the longest lookback.
WindowLens == {1, bbl, pd_len + 1, low_lookback_cm6, low_lookback_cm6 + 1}

Windows == [len : WindowLens, chips : BOOLEAN, vix : BOOLEAN]

\* The windows delivered when two pair tasks interleave: every indicator has
\* its history, so each flag follows the data.
SessionWindows == {w \in Windows : w.len = low_lookback_cm6}

ErrorMessages == {"NetworkError"}

(***************************************************************************)
(* strategy.py                                                             *)
(***************************************************************************)
StrategyState ==
    [accumulation_streak |-> 0, pending_signal |-> FALSE,
     bars_since_squeeze |-> 0, last_signal_bar_index |-> None]

\* chips_value needs lowest(low, 60) of the last bar: NaN, hence cm6 = 0 and
\* chips_value = 0, on a window of fewer than 60 rows.
is_raw_accumulation(w) == w.len >= low_lookback_cm6 /\ w.chips

\* wvf is 0 while highest(close, 22) is NaN (rows 0..20).  upperBand is NaN
\* below 20 rows and rangeHigh below 22 rows: no spike.  At 20 and 21 rows
\* wvf = 0 >= upperBand = 0, and at 22 rows wvf >= 0.85 * wvf (its own
\* rolling maximum over rows that are otherwise 0): a spike whatever the
\* data.  From 23 rows on the comparison depends on the data.
is_vix_spike(w) ==
    IF w.len < bbl THEN FALSE
    ELSE IF w.len <= pd_len THEN TRUE
    ELSE w.vix

\* A change of _market_flow that leaves the streak standing on a bar whose
\* raw flag is false.
_market_flow_NoReset(w, state) ==
    LET streak == IF is_raw_accumulation(w)
                  THEN state.accumulation_streak + 1
                  ELSE state.accumulation_streak
    IN  [state |-> [state EXCEPT !.accumulation_streak = streak],
         is_confirmed_accumulation |-> streak >= chips_confirmation_bars]

\* The streak update and the confirmation (lines 117-124); a window has at
\* least one row wherever _watch_pair calls compute_signal.
_market_flow(w, state) ==
    LET streak == IF w.len >= 1
                  THEN IF is_raw_accumulation(w)
                       THEN state.accumulation_streak + 1
                       ELSE 0
                  ELSE state.accumulation_streak
    IN  [state |-> [state EXCEPT !.accumulation_streak = streak],
         is_confirmed_accumulation |-> streak >= chips_confirmation_bars]

\* A change of _trend_rider in which a detected divergence counts as panic.
_trend_rider_DivergencePanics(w) ==
    [is_vix_spike |-> IF w.len >= 1 THEN is_vix_spike(w) \/ w.div ELSE FALSE]

\* The output of _trend_rider that compute_signal reads.
_trend_rider(w) == [is_vix_spike |-> IF w.len >= 1 THEN is_vix_spike(w) ELSE FALSE]

\* normal_entry = accumulation_signal and (not panic_mode)
normal_entry_of(accumulation_signal, panic_mode) == accumulation_signal /\ ~panic_mode

\* A change of set_pending that defers on every panic bar.
set_pending_OnPanic(state, accumulation_signal, panic_mode) ==
    IF panic_mode THEN [state EXCEPT !.pending_signal = TRUE] ELSE state

\* if accumulation_signal and panic_mode: state.pending_signal = True
set_pending(state, accumulation_signal, panic_mode) ==
    IF accumulation_signal /\ panic_mode
    THEN [state EXCEPT !.pending_signal = TRUE]
    ELSE state

\* pending_entry = state.pending_signal and (not panic_mode)
pending_entry_of(state, panic_mode) == state.pending_signal /\ ~panic_mode

\* A change of clear_pending that leaves the flag standing after the entry.
clear_pending_Never(state, pending_entry) == state

\* if pending_entry: state.pending_signal = False
clear_pending(state, pending_entry) ==
    IF pending_entry THEN [state EXCEPT !.pending_signal = FALSE] ELSE state

\* A change of long_condition_of that wants both entries.
long_condition_of_Both(normal_entry, pending_entry) == normal_entry /\ pending_entry

\* long_condition = normal_entry or pending_entry
long_condition_of(normal_entry, pending_entry) == normal_entry \/ pending_entry

\* if long_condition: state.last_signal_bar_index = len(df) - 1
record_signal_bar(state, long_condition, w) ==
    IF long_condition
    THEN [state EXCEPT !.last_signal_bar_index = Some(w.len - 1)]
    ELSE state

\* A change of bars_since_of without the max(0, ...).
bars_since_of_Unclamped(w, state) ==
    IF state.last_signal_bar_index = None THEN 0
    ELSE (w.len - 1) - Get(state.last_signal_bar_index)

\* bars_since = max(0, (len(df) - 1) - state.last_signal_bar_index), or 0
bars_since_of(w, state) ==
    IF state.last_signal_bar_index = None THEN 0
    ELSE LET d == (w.len - 1) - Get(state.last_signal_bar_index)
         IN  IF d > 0 THEN d ELSE 0

\* compute_signal: the state it leaves and the dict it returns.
compute_signal(w, state) ==
    LET mf == _market_flow(w, state)
        tr == _trend_rider(w)
        accumulation_signal == mf.is_confirmed_accumulation
        panic_mode == tr.is_vix_spike
        normal_entry == normal_entry_of(accumulation_signal, panic_mode)
        s1 == set_pending(mf.state, accumulation_signal, panic_mode)
        pending_entry == pending_entry_of(s1, panic_mode)
        s2 == clear_pending(s1, pending_entry)
        long_condition == long_condition_of(normal_entry, pending_entry)
        s3 == record_signal_bar(s2, long_condition, w)
    IN  [state |-> s3,
         sig |-> [long_condition |-> long_condition,
                  bars_since |-> bars_since_of(w, s3),
                  pending_signal |-> s3.pending_signal]]

(***************************************************************************)
(* strategy.py: rsi.  A float is an exact fraction [num, den] in lowest    *)
(* terms with den > 0; NaN is the fraction with den = 0.  A pandas Series  *)
(* is a sequence of floats.                                                *)
(***************************************************************************)
NaN == [num |-> 0, den |-> 0]
IsNaN(x) == x.den = 0

RECURSIVE GCD(_, _)
GCD(a, b) == IF b = 0 THEN a ELSE GCD(b, a % b)

Abs(n) == IF n < 0 THEN -n ELSE n

\* n / d for d > 0, in lowest terms.
Frac(n, d) ==
    LET g == GCD(Abs(n), d)
    IN  [num |-> n \div g, den |-> d \div g]

Num(n) == [num |-> n, den |-> 1]

FNeg(a) == IF IsNaN(a) THEN NaN ELSE [num |-> -a.num, den |-> a.den]
FAdd(a, b) ==
    IF IsNaN(a) \/ IsNaN(b) THEN NaN
    ELSE Frac(a.num * b.den + b.num * a.den, a.den * b.den)
FSub(a, b) == FAdd(a, FNeg(b))
FMul(a, b) ==
    IF IsNaN(a) \/ IsNaN(b) THEN NaN ELSE Frac(a.num * b.num, a.den * b.den)
\* a / b for b NaN or b > 0: rsi never divides by anything else.
FDiv(a, b) ==
    IF IsNaN(a) \/ IsNaN(b) THEN NaN ELSE Frac(a.num * b.den, a.den * b.num)
FLeq(a, b) == a.num * b.den <= b.num * a.den

\* series.diff()
diff(s) == [t \in 1..Len(s) |-> IF t = 1 THEN NaN ELSE FSub(s[t], s[t - 1])]

\* series.clip(lower=0), series.clip(upper=0): NaN stays NaN.
clip_lower0(s) ==
    [t \in 1..Len(s) |-> IF ~IsNaN(s[t]) /\ s[t].num < 0 THEN Num(0) ELSE s[t]]
clip_upper0(s) ==
    [t \in 1..Len(s) |-> IF ~IsNaN(s[t]) /\ s[t].num > 0 THEN Num(0) ELSE s[t]]

\* series.ewm(alpha=1/length, adjust=False).mean() at row t: NaN up to the
\* first value, that value at its row, then y = (1 - alpha) y + alpha x.
RECURSIVE EwmAt(_, _, _)
EwmAt(s, length, t) ==
    IF t = 0 THEN NaN
    ELSE LET prev == EwmAt(s, length, t - 1)
         IN  IF IsNaN(s[t]) THEN prev
             ELSE IF IsNaN(prev) THEN s[t]
             ELSE FAdd(FMul(Frac(length - 1, length), prev), FMul(Frac(1, length), s[t]))

ewm_mean(s, length) == [t \in 1..Len(s) |-> EwmAt(s, length, t)]

\* series.replace(0, np.nan)
replace_0_nan(s) ==
    [t \in 1..Len(s) |-> IF ~IsNaN(s[t]) /\ s[t].num = 0 THEN NaN ELSE s[t]]

\* series.fillna(0)
fillna_0(s) == [t \in 1..Len(s) |-> IF IsNaN(s[t]) THEN Num(0) ELSE s[t]]

\* avg_loss of rsi: the smoothed average of loss = -delta.clip(upper=0).
rsi_avg_loss(series, length) ==
    LET delta == diff(series)
        loss == [t \in 1..Len(series) |-> FNeg(clip_upper0(delta)[t])]
    IN  ewm_mean(loss, length)

rsi_avg_gain(series, length) ==
    LET delta == diff(series)
        gain == clip_lower0(delta)
    IN  ewm_mean(gain, length)

rsi(series, length) ==
    LET avg_gain == rsi_avg_gain(series, length)
        avg_loss == rsi_avg_loss(series, length)
        denom == replace_0_nan(avg_loss)
        rs == [t \in 1..Len(series) |-> FDiv(avg_gain[t], denom[t])]
        rsi_vals == [t \in 1..Len(series) |->
                        FSub(Num(100), FDiv(Num(100), FAdd(Num(1), rs[t])))]
    IN  fillna_0(rsi_vals)

\* rsi_vals = rsi(close, 14)
rsi_length == 14

(***************************************************************************)
(* scanner.py                                                              *)
(***************************************************************************)
PairState(sym, tf, mt) ==
    [symbol |-> sym, timeframe |-> tf, market_type |-> mt,
     state |-> StrategyState, ohlcv |-> None, last_closed_ts |-> None]

\* The locals of a _watch_pair frame before their first assignment.
NoLocals == [last_ts |-> None, sig |-> None]

Tasks == 1..Len(pairs)

PairKey(p) == <<p.symbol, p.market_type, p.timeframe>>

\* The dict _watch_pair puts on status_queue for a new closed bar.
BarStatus(p, ts) ==
    [symbol |-> p.symbol, market_type |-> p.market_type, timeframe |-> p.timeframe,
     last_ts |-> Some(ts), mode |-> mode, error |-> None,
     keys |-> {"symbol", "market_type", "timeframe", "last_ts", "mode"}]

\* A change of ErrorStatus that drops the error message.
ErrorStatus_NoMessage(p, msg) ==
    [symbol |-> p.symbol, market_type |-> p.market_type, timeframe |-> p.timeframe,
     last_ts |-> None, mode |-> mode, error |-> None,
     keys |-> {"symbol", "market_type", "timeframe", "mode"}]

\* The dict the except branch of _watch_pair puts on status_queue.
ErrorStatus(p, msg) ==
    [symbol |-> p.symbol, market_type |-> p.market_type, timeframe |-> p.timeframe,
     last_ts |-> None, mode |-> mode, error |-> Some(msg),
     keys |-> {"symbol", "market_type", "timeframe", "error", "mode"}]

\* The dict run puts on status_queue for each pair before the tasks start.
InitialStatus(p, m) ==
    [symbol |-> p.symbol, market_type |-> p.market_type, timeframe |-> p.timeframe,
     last_ts |-> None, mode |-> m, error |-> None,
     keys |-> {"symbol", "market_type", "timeframe", "last_ts", "mode", "error"}]

SignalOf(p, ts, sig) ==
    [symbol |-> p.symbol, market_type |-> p.market_type, timeframe |-> p.timeframe,
     signal_time |-> ts, bars_since |-> sig.bars_since]

\* _load_markets' loop over one symbol and one timeframe.
PairsOfTf(sym, tf) ==
    <<PairState(sym, tf, "spot")>> \o
    (IF exchange_type \in {"both", "futures"}
     THEN <<PairState(sym, tf, "futures")>> ELSE <<>>)

RECURSIVE PairsOfSym(_, _)
PairsOfSym(sym, tfs) ==
    IF tfs = <<>> THEN <<>>
    ELSE PairsOfTf(sym, Head(tfs)) \o PairsOfSym(sym, Tail(tfs))

RECURSIVE BuildPairs(_)
BuildPairs(syms) ==
    IF syms = <<>> THEN <<>>
    ELSE PairsOfSym(Head(syms), timeframes) \o BuildPairs(Tail(syms))

\* A change of run that starts the tasks without the initial statuses.
InitialStatuses_None(ps, m) == <<>>

\* run's loop over self.pairs before the tasks are created.
RECURSIVE InitialStatuses(_, _)
InitialStatuses(ps, m) ==
    IF ps = <<>> THEN <<>>
    ELSE <<InitialStatus(Head(ps), m)>> \o InitialStatuses(Tail(ps), m)

\* _init_exchanges: the transport chosen.
ModeOf == IF use_ccxt_pro /\ ccxtpro THEN "websocket" ELSE "rest"

\* A change of FilterWhitelist that forgets the blacklist.
FilterWhitelist_KeepsAll(wl, bl) == wl

\* self.whitelist = [s for s in whitelist if s not in blacklist]
RECURSIVE FilterWhitelist(_, _)
FilterWhitelist(wl, bl) ==
    IF wl = <<>> THEN <<>>
    ELSE (IF Head(wl) \in bl THEN <<>> ELSE <<Head(wl)>>) \o FilterWhitelist(Tail(wl), bl)

\* The scanner after SignalScanner(cfg), before run.
Constructed(cfg) ==
    /\ config = cfg
    /\ exchange_type = cfg.exchange_type
    /\ use_ccxt_pro = cfg.use_ccxt_pro
    /\ timeframes = cfg.timeframes
    /\ whitelist = FilterWhitelist(cfg.whitelist, cfg.blacklist)
    /\ mode = "rest"
    /\ pairs = <<>>
    /\ run_pc = "start"
    /\ pc = <<>>
    /\ locals = <<>>
    /\ signal_queue = <<>>
    /\ status_queue = <<>>

\* start_scanner_thread: the session state before the first drain.
SessionState ==
    /\ ui_pc = "idle"
    /\ new_signals = <<>>
    /\ sig_read = 0
    /\ stat_read = 0
    /\ pair_status = [k \in {} |-> None]
    /\ history = <<>>
    /\ session_open = TRUE

\* No indicator call is made on its own.
NoCall ==
    /\ close = <<>>
    /\ rsi_out = None
    /\ cs_in = None
    /\ cs_out = None

\* The candles of the exchange are left out: a fetch delivers any window.
NoSeries == candle_raw = <<>>

\* One symbol on one timeframe, spot and futures.
SessionConfig ==
    [exchange_type |-> "both", use_ccxt_pro |-> TRUE, timeframes |-> <<"1h">>,
     whitelist |-> <<"BTC/USDT">>, blacklist |-> {}]

Init ==
    /\ Constructed(SessionConfig)
    /\ SessionState
    /\ NoCall
    /\ NoSeries
    /\ ccxtpro \in BOOLEAN

\* The configuration of the single-pair session: spot only.
InitSpot ==
    /\ Constructed([SessionConfig EXCEPT !.exchange_type = "spot"])
    /\ SessionState
    /\ NoCall
    /\ NoSeries
    /\ ccxtpro \in BOOLEAN

Symbols == {"BTC/USDT", "ETH/USDT"}
TimeframeNames == {"1h", "4h"}
ExchangeTypes == {"spot", "futures", "both"}

SeqsUpTo(S, n) == UNION {[1..k -> S] : k \in 0..n}

\* The configurations a config file can give: lists with repeated entries,
\* an empty whitelist, blacklisted symbols, each exchange type.
Configs ==
    [exchange_type : ExchangeTypes, use_ccxt_pro : {TRUE},
     timeframes : SeqsUpTo(TimeframeNames, MaxTimeframes),
     whitelist : SeqsUpTo(Symbols, MaxSymbols), blacklist : SUBSET Symbols]

InitCfg ==
    /\ \E cfg \in Configs : Constructed(cfg)
    /\ SessionState
    /\ NoCall
    /\ NoSeries
    /\ ccxtpro \in BOOLEAN

\* run: _init_exchanges and _load_markets succeed, the initial statuses are
\* put and one task per pair is created.
RunStart ==
    /\ run_pc = "start"
    /\ LET ps == BuildPairs(whitelist)
       IN  /\ pairs' = ps
           /\ mode' = ModeOf
           /\ status_queue' = status_queue \o InitialStatuses(ps, ModeOf)
           /\ pc' = [i \in 1..Len(ps) |-> "fetch"]
           /\ locals' = [i \in 1..Len(ps) |-> NoLocals]
    /\ run_pc' = "gather"
    /\ UNCHANGED <<config_vars, candle_raw, ui_vars, calc_vars, signal_queue>>

\* run: load_markets raises inside _init_exchanges; run raises before any
\* pair is built.
RunInitFail ==
    /\ run_pc = "start"
    /\ mode' = ModeOf
    /\ run_pc' = "raised"
    /\ UNCHANGED <<config_vars, candle_raw, ui_vars, calc_vars, pairs, pc, locals, signal_queue, status_queue>>

\* A change of IsNewBar that takes the last closed timestamp again.
IsNewBar_OrEqual(p, ts) == p.last_closed_ts = None \/ ts >= Get(p.last_closed_ts)

\* A change of IsNewBar that takes every fetch.
IsNewBar_Always(p, ts) == TRUE

\* A change of IsNewBar that waits for a last closed timestamp to compare with.
IsNewBar_NeedsLast(p, ts) == p.last_closed_ts # None /\ ts > Get(p.last_closed_ts)

\* if pair.last_closed_ts is None or last_ts > pair.last_closed_ts
IsNewBar(p, ts) == p.last_closed_ts = None \/ ts > Get(p.last_closed_ts)

\* Lines 95-120 for a window whose last timestamp is ts.
ProcessBar(i, ts, w) ==
    LET p == pairs[i]
        r == compute_signal(w, p.state)
    IN  IF IsNewBar(p, ts)
        THEN /\ pairs' = [pairs EXCEPT ![i] =
                    [p EXCEPT !.last_closed_ts = Some(ts), !.ohlcv = Some(w),
                              !.state = r.state]]
             /\ status_queue' = Append(status_queue, BarStatus(p, ts))
             /\ signal_queue' = IF r.sig.long_condition
                                THEN Append(signal_queue, SignalOf(p, ts, r.sig))
                                ELSE signal_queue
             /\ locals' = [locals EXCEPT ![i] = [last_ts |-> Some(ts), sig |-> Some(r.sig)]]
        ELSE /\ locals' = [locals EXCEPT ![i].last_ts = Some(ts)]
             /\ UNCHANGED <<pairs, status_queue, signal_queue>>

\* One pass of the loop of _watch_pair in which the data wait returns rows.
WatchData(i, TS, W) ==
    /\ i \in Tasks
    /\ pc[i] = "fetch"
    /\ \E ts \in TS, w \in W : ProcessBar(i, ts, w)
    /\ pc' = [pc EXCEPT ![i] = "sleep"]
    /\ UNCHANGED <<config_vars, candle_raw, ui_vars, calc_vars, mode, run_pc>>

\* The data wait returns no rows: sleep(0.1) and continue.
WatchEmpty(i) ==
    /\ i \in Tasks
    /\ pc[i] = "fetch"
    /\ pc' = [pc EXCEPT ![i] = "sleep"]
    /\ UNCHANGED <<config_vars, candle_raw, ui_vars, calc_vars, mode, run_pc, pairs, locals, signal_queue, status_queue>>

\* The sleep at the end of a pass returns: the loop waits for data again.
WatchResume(i) ==
    /\ i \in Tasks
    /\ pc[i] = "sleep"
    /\ pc' = [pc EXCEPT ![i] = "fetch"]
    /\ UNCHANGED <<config_vars, candle_raw, ui_vars, calc_vars, mode, run_pc, pairs, locals, signal_queue, status_queue>>

\* A change of WatchError in which the failure ends every task of the session.
WatchError_EndsAll(i) ==
    /\ i \in Tasks
    /\ pc[i] = "fetch"
    /\ \E msg \in ErrorMessages :
          status_queue' = Append(status_queue, ErrorStatus(pairs[i], msg))
    /\ pc' = [j \in Tasks |-> IF j = i THEN "backoff" ELSE "done"]
    /\ UNCHANGED <<config_vars, candle_raw, ui_vars, calc_vars, mode, run_pc, pairs, locals, signal_queue>>

\* The data wait (or the conversion of its rows) raises: the except branch,
\* which is outside the while loop, puts the error status and sleeps 1 s.
WatchError(i) ==
    /\ i \in Tasks
    /\ pc[i] = "fetch"
    /\ \E msg \in ErrorMessages :
          status_queue' = Append(status_queue, ErrorStatus(pairs[i], msg))
    /\ pc' = [pc EXCEPT ![i] = "backoff"]
    /\ UNCHANGED <<config_vars, candle_raw, ui_vars, calc_vars, mode, run_pc, pairs, locals, signal_queue>>

\* The sleep of the except branch returns: _watch_pair returns.
WatchReturn(i) ==
    /\ i \in Tasks
    /\ pc[i] = "backoff"
    /\ pc' = [pc EXCEPT ![i] = "done"]
    /\ UNCHANGED <<config_vars, candle_raw, ui_vars, calc_vars, mode, run_pc, pairs, locals, signal_queue, status_queue>>

\* gather returns once every task has returned.
RunGathered ==
    /\ run_pc = "gather"
    /\ \A i \in Tasks : pc[i] = "done"
    /\ run_pc' = "returned"
    /\ UNCHANGED <<config_vars, candle_raw, ui_vars, calc_vars, mode, pairs, pc, locals, signal_queue, status_queue>>

\* The number of new closed bars the tasks have processed so far.
BarsProcessed ==
    Cardinality({k \in 1..Len(status_queue) : status_queue[k].last_ts # None})

\* The timestamps delivered when two pair tasks interleave: an earlier candle
\* again or, while the session's candles last, the one after the pair's last
\* closed candle.
SessionTimestamps(i) ==
    LET p == pairs[i]
        nxt == IF p.last_closed_ts = None THEN 1 ELSE Get(p.last_closed_ts) + 1
    IN  {ts \in 1..nxt : ts < nxt \/ BarsProcessed < MaxSessionBars}

Next ==
    \/ RunStart
    \/ RunInitFail
    \/ \E i \in Tasks : WatchData(i, SessionTimestamps(i), SessionWindows)
    \/ \E i \in Tasks : WatchEmpty(i)
    \/ \E i \in Tasks : WatchResume(i)
    \/ \E i \in Tasks : WatchError(i)
    \/ \E i \in Tasks : WatchReturn(i)
    \/ RunGathered

Spec == Init /\ [][Next]_vars

NextSpot ==
    \/ RunStart
    \/ RunInitFail
    \/ \E i \in Tasks : WatchData(i, 1..MaxBars, Windows)
    \/ \E i \in Tasks : WatchEmpty(i)
    \/ \E i \in Tasks : WatchResume(i)
    \/ \E i \in Tasks : WatchError(i)
    \/ \E i \in Tasks : WatchReturn(i)
    \/ RunGathered

SpecSpot == InitSpot /\ [][NextSpot]_vars

\* The start of a session for every configuration; the pair tasks are left
\* where run created them.
NextCfg ==
    \/ RunStart
    \/ RunInitFail
    \/ RunGathered

SpecCfg == InitCfg /\ [][NextCfg]_vars

(***************************************************************************)
(* main.py: the dashboard script.  Each run of the script drains both      *)
(* queues with get_nowait, one dict at a time, while the scanner thread    *)
(* keeps putting.                                                          *)
(***************************************************************************)
\* A change of StatusStore that keeps the first status seen for a key.
StatusStore_KeepFirst(ps, stat) ==
    IF PairKey(stat) \in DOMAIN ps THEN ps
    ELSE [k \in DOMAIN ps \cup {PairKey(stat)} |-> IF k = PairKey(stat) THEN stat ELSE ps[k]]

\* key = (symbol, market_type, timeframe); pair_status[key] = stat
StatusStore(ps, stat) ==
    [k \in DOMAIN ps \cup {PairKey(stat)} |-> IF k = PairKey(stat) THEN stat ELSE ps[k]]

history_limit == 50

\* history[-limit:]
clip_history(h, limit) ==
    IF Len(h) <= limit THEN h ELSE SubSeq(h, Len(h) - limit + 1, Len(h))

\* A run of the script begins: new_signals = [].
UIRun ==
    /\ session_open
    /\ ui_pc = "idle"
    /\ ui_pc' = "signals"
    /\ new_signals' = <<>>
    /\ UNCHANGED <<config_vars, candle_raw, scanner_vars, calc_vars, signal_queue, status_queue,
                   sig_read, stat_read, pair_status, history, session_open>>

\* signal_queue.get_nowait() returns a dict: it is appended to new_signals.
UIGetSignal ==
    /\ ui_pc = "signals"
    /\ sig_read < Len(signal_queue)
    /\ new_signals' = Append(new_signals, signal_queue[sig_read + 1])
    /\ sig_read' = sig_read + 1
    /\ UNCHANGED <<config_vars, candle_raw, scanner_vars, calc_vars, signal_queue, status_queue,
                   ui_pc, stat_read, pair_status, history, session_open>>

\* signal_queue.get_nowait() raises Empty: the status drain begins.
UISignalsEmpty ==
    /\ ui_pc = "signals"
    /\ sig_read = Len(signal_queue)
    /\ ui_pc' = "statuses"
    /\ UNCHANGED <<config_vars, candle_raw, scanner_vars, calc_vars, signal_queue, status_queue,
                   new_signals, sig_read, stat_read, pair_status, history, session_open>>

\* status_queue.get_nowait() returns a dict: it is stored under its key.
UIGetStatus ==
    /\ ui_pc = "statuses"
    /\ stat_read < Len(status_queue)
    /\ pair_status' = StatusStore(pair_status, status_queue[stat_read + 1])
    /\ stat_read' = stat_read + 1
    /\ UNCHANGED <<config_vars, candle_raw, scanner_vars, calc_vars, signal_queue, status_queue,
                   ui_pc, new_signals, sig_read, history, session_open>>

\* status_queue.get_nowait() raises Empty: the new signals go to the history,
\* which is clipped, and the script renders and ends.
UIStatusesEmpty ==
    /\ ui_pc = "statuses"
    /\ stat_read = Len(status_queue)
    /\ history' = IF new_signals # <<>>
                  THEN clip_history(history \o new_signals, history_limit)
                  ELSE history
    /\ ui_pc' = "idle"
    /\ UNCHANGED <<config_vars, candle_raw, scanner_vars, calc_vars, signal_queue, status_queue,
                   new_signals, sig_read, stat_read, pair_status, session_open>>

\* The timestamps delivered while the dashboard script runs: as
\* SessionTimestamps, for MaxUIBars candles.
UITimestamps(i) ==
    LET p == pairs[i]
        nxt == IF p.last_closed_ts = None THEN 1 ELSE Get(p.last_closed_ts) + 1
    IN  {ts \in 1..nxt : ts < nxt \/ BarsProcessed < MaxUIBars}

\* The two-pair scan session together with the dashboard script.
NextUI ==
    \/ RunStart
    \/ RunInitFail
    \/ \E i \in Tasks : WatchData(i, UITimestamps(i), SessionWindows)
    \/ \E i \in Tasks : WatchEmpty(i)
    \/ \E i \in Tasks : WatchResume(i)
    \/ \E i \in Tasks : WatchError(i)
    \/ \E i \in Tasks : WatchReturn(i)
    \/ RunGathered
    \/ UIRun
    \/ UIGetSignal
    \/ UISignalsEmpty
    \/ UIGetStatus
    \/ UIStatusesEmpty

SpecUI == Init /\ [][NextUI]_vars

\* The dashboard session that started the scanner thread ends.  The thread
\* is a daemon thread whose handle, scanner and event loop are locals of
\* start_scanner_thread and runner: the session keeps no reference to them
\* and no code of the scanner reads the session.
SessionStop ==
    /\ session_open
    /\ session_open' = FALSE
    /\ UNCHANGED <<config_vars, candle_raw, scanner_vars, calc_vars, signal_queue, status_queue,
                   ui_pc, new_signals, sig_read, stat_read, pair_status, history>>

\* The two-pair scan session and the end of the dashboard session.
NextStop ==
    \/ RunStart
    \/ RunInitFail
    \/ \E i \in Tasks : WatchData(i, SessionTimestamps(i), SessionWindows)
    \/ \E i \in Tasks : WatchEmpty(i)
    \/ \E i \in Tasks : WatchResume(i)
    \/ \E i \in Tasks : WatchError(i)
    \/ \E i \in Tasks : WatchReturn(i)
    \/ RunGathered
    \/ SessionStop

SpecStop == Init /\ [][NextStop]_vars

(***************************************************************************)
(* The single spot pair on an exchange whose candles are followed: candle  *)
(* ts has the raw accumulation flag candle_raw[ts], and every window whose *)
(* last row is candle ts shows that flag on its last bar.                  *)
(***************************************************************************)
InitSeries ==
    /\ Constructed([SessionConfig EXCEPT !.exchange_type = "spot"])
    /\ SessionState
    /\ NoCall
    /\ candle_raw \in [1..MaxSeriesBars -> BOOLEAN]
    /\ ccxtpro \in BOOLEAN

SeriesWindows(ts) == {w \in Windows : w.chips = candle_raw[ts]}

NextSeries ==
    \/ RunStart
    \/ RunInitFail
    \/ \E i \in Tasks, ts \in 1..MaxSeriesBars : WatchData(i, {ts}, SeriesWindows(ts))
    \/ \E i \in Tasks : WatchEmpty(i)
    \/ \E i \in Tasks : WatchResume(i)
    \/ \E i \in Tasks : WatchError(i)
    \/ \E i \in Tasks : WatchReturn(i)
    \/ RunGathered

SpecSeries == InitSeries /\ [][NextSeries]_vars

(***************************************************************************)
(* Pull mode: ccxtpro is missing, so every data wait is                    *)
(* asyncio.to_thread(exch.fetch_ohlcv, ...), and two symbols of the spot   *)
(* market share the connection exchange_spot.                              *)
(***************************************************************************)
PullConfig ==
    [SessionConfig EXCEPT !.exchange_type = "spot",
                          !.whitelist = <<"BTC/USDT", "ETH/USDT">>]

InitPull ==
    /\ Constructed(PullConfig)
    /\ SessionState
    /\ NoCall
    /\ NoSeries
    /\ ccxtpro = FALSE

SpecPull == InitPull /\ [][Next]_vars

\* exch = self.exchange_spot if pair.market_type == "spot" else self.exchange_futures
Connection(i) == pairs[i].market_type

\* Task i is suspended in await asyncio.to_thread(exch.fetch_ohlcv, ...): its
\* call has been handed to a worker thread and has not returned.
InFlight(i) == mode = "rest" /\ pc[i] = "fetch"

(***************************************************************************)
(* compute_signal on its own, called on two windows from one strategy      *)
(* state.  Here a window also carries what the divergence search and the   *)
(* squeeze test of _trend_rider find in it.                                *)
(***************************************************************************)
TrendWindows ==
    [len : WindowLens, chips : BOOLEAN, vix : BOOLEAN, div : BOOLEAN, squeeze : BOOLEAN]

\* The divergence and squeeze entries of the dict _trend_rider returns.
_trend_rider_flags(w) ==
    [is_bullish_divergence_detected |-> w.div,
     is_squeeze_now |-> IF w.len >= 1 THEN w.squeeze ELSE FALSE]

\* Strategy states a pair can be in between two calls.
CallStates ==
    [accumulation_streak : 0..MaxStreak, pending_signal : BOOLEAN,
     bars_since_squeeze : {0},
     last_signal_bar_index : {None, Some(low_lookback_cm6 - 1)}]

CallInputs == [state : CallStates, plain : TrendWindows, other : TrendWindows]

InitEntry ==
    /\ Constructed(SessionConfig)
    /\ SessionState
    /\ NoSeries
    /\ ccxtpro = FALSE
    /\ close = <<>>
    /\ rsi_out = None
    /\ \E x \in CallInputs : cs_in = Some(x)
    /\ cs_out = None

\* compute_signal(df, state) on each of the two windows, each call starting
\* from a copy of the state.
EntryCalls ==
    /\ cs_in # None
    /\ cs_out = None
    /\ cs_out' = Some([plain |-> compute_signal(Get(cs_in).plain, Get(cs_in).state),
                       other |-> compute_signal(Get(cs_in).other, Get(cs_in).state)])
    /\ UNCHANGED <<config_vars, candle_raw, scanner_vars, ui_vars, signal_queue, status_queue,
                   close, rsi_out, cs_in>>

NextEntry == EntryCalls

SpecEntry == InitEntry /\ [][NextEntry]_vars

(***************************************************************************)
(* rsi on its own, for every short series of closes.                       *)
(***************************************************************************)
CloseSeries == UNION {[1..n -> 1..MaxPrice] : n \in 1..MaxCloses}

InitRsi ==
    /\ Constructed(SessionConfig)
    /\ SessionState
    /\ ccxtpro = FALSE
    /\ close \in CloseSeries
    /\ rsi_out = None
    /\ cs_in = None
    /\ cs_out = None
    /\ NoSeries

\* _trend_rider's call rsi(close, 14).
RsiCall ==
    /\ rsi_out = None
    /\ rsi_out' = Some(rsi([t \in 1..Len(close) |-> Num(close[t])], rsi_length))
    /\ UNCHANGED <<config_vars, candle_raw, scanner_vars, ui_vars, signal_queue, status_queue,
                   close, cs_in, cs_out>>

NextRsi == RsiCall

SpecRsi == InitRsi /\ [][NextRsi]_vars

(***************************************************************************)
(* Properties.                                                             *)
(***************************************************************************)
SameKey(a, b) ==
    a.symbol = b.symbol /\ a.market_type = b.market_type /\ a.timeframe = b.timeframe

\* A pass of task i's loop in which the data wait returned.
FetchReturned(i) == pc[i] = "fetch" /\ pc'[i] = "sleep"

\* A pass of task i's loop that called compute_signal.
Called(i) == FetchReturned(i) /\ pairs'[i].last_closed_ts # pairs[i].last_closed_ts

\* C1: the signal queue never holds two Signals with the same symbol, market
\* type, timeframe and candle timestamp.
C1_SignalOncePerCandle ==
    \A a, b \in 1..Len(signal_queue) :
        (SameKey(signal_queue[a], signal_queue[b])
         /\ signal_queue[a].signal_time = signal_queue[b].signal_time) => a = b

\* C1 witness: on the pair's third bar an immediate and a deferred entry both
\* held (three raw accumulation bars, the second deferred by panic) and one
\* Signal is queued; a fetch has since delivered an earlier timestamp again.
C1_Witness ==
    \E i \in Tasks :
        /\ pc[i] = "sleep"
        /\ pairs[i].state.accumulation_streak = 3
        /\ Len(status_queue) = Len(pairs) + 3
        /\ Len(signal_queue) = 1
        /\ Some(signal_queue[1].signal_time) = pairs[i].last_closed_ts
        /\ locals[i].last_ts # None
        /\ Get(locals[i].last_ts) < Get(pairs[i].last_closed_ts)

\* C2: a pass whose fetched timestamp is equal to or earlier than the pair's
\* last_closed_ts leaves both queues and the whole PairState (last_closed_ts,
\* accumulation_streak, pending_signal, last_signal_bar_index) unchanged.
C2_StaleFetchDiscarded ==
    [][\A i \in Tasks :
          (/\ FetchReturned(i)
           /\ locals'[i].last_ts # None
           /\ pairs[i].last_closed_ts # None
           /\ Get(locals'[i].last_ts) <= Get(pairs[i].last_closed_ts))
          => /\ status_queue' = status_queue
             /\ signal_queue' = signal_queue
             /\ pairs'[i] = pairs[i]]_vars

\* C2 witness: the last fetch of a task delivered a timestamp earlier than the
\* pair's last_closed_ts while the pair holds a pending signal and a streak.
C2_Witness ==
    \E i \in Tasks :
        /\ pc[i] = "sleep"
        /\ locals[i].last_ts # None /\ pairs[i].last_closed_ts # None
        /\ Get(locals[i].last_ts) < Get(pairs[i].last_closed_ts)
        /\ pairs[i].state.pending_signal
        /\ pairs[i].state.accumulation_streak >= chips_confirmation_bars

\* C5: a pass whose fetched timestamp is newer than last_closed_ts (or finds it
\* unset) sets last_closed_ts to it, appends exactly one StatusUpdate, which
\* carries it, and appends one Signal carrying it exactly when compute_signal
\* returned long_condition true (and leaves the signal queue alone otherwise).
C5_NewBarPublished ==
    [][\A i \in Tasks :
          (/\ FetchReturned(i)
           /\ locals'[i].last_ts # None
           /\ \/ pairs[i].last_closed_ts = None
              \/ Get(locals'[i].last_ts) > Get(pairs[i].last_closed_ts))
          => LET ts == Get(locals'[i].last_ts)
             IN  /\ pairs'[i].last_closed_ts = Some(ts)
                 /\ Len(status_queue') = Len(status_queue) + 1
                 /\ SubSeq(status_queue', 1, Len(status_queue)) = status_queue
                 /\ LET st == status_queue'[Len(status_queue')]
                    IN  SameKey(st, pairs[i]) /\ st.last_ts = Some(ts)
                                              /\ "error" \notin st.keys
                 /\ locals'[i].sig # None
                 /\ IF Get(locals'[i].sig).long_condition
                    THEN /\ Len(signal_queue') = Len(signal_queue) + 1
                         /\ SubSeq(signal_queue', 1, Len(signal_queue)) = signal_queue
                         /\ LET sg == signal_queue'[Len(signal_queue')]
                            IN  SameKey(sg, pairs[i]) /\ sg.signal_time = ts
                    ELSE signal_queue' = signal_queue]_vars

\* C5 witness: the last pass of a task processed a new bar that skipped a
\* timestamp and queued a Signal for it.
C5_Witness ==
    \E i \in Tasks :
        /\ pc[i] = "sleep"
        /\ locals[i].sig # None /\ Get(locals[i].sig).long_condition
        /\ locals[i].last_ts = pairs[i].last_closed_ts
        /\ signal_queue # <<>>
        /\ signal_queue[Len(signal_queue)].signal_time = Get(pairs[i].last_closed_ts)
        /\ Len(status_queue) < Len(pairs) + Get(pairs[i].last_closed_ts)

\* The status queue holds an error StatusUpdate of task i's pair.
HasErrorStatus(i) ==
    \E k \in 1..Len(status_queue) :
        SameKey(status_queue[k], pairs[i]) /\ status_queue[k].error # None

\* C3: while the scan session runs, every pair keeps a live task: after the
\* error status and the pause the task is back in its loop, never returned.
C3_TaskStaysLive ==
    run_pc = "gather" => \A i \in Tasks : pc[i] \in {"fetch", "sleep", "backoff"}

\* C4: the step in which one task takes a transport error changes nothing of
\* any sibling (its PairState, its locals, its position), puts nothing but the
\* failing pair's error status on the queues and leaves run waiting; no step
\* of one task changes another task's PairState, locals or position; and a
\* task is only ever in or past the except branch after an error of its own.
C4_SiblingIsolation ==
    /\ [](\A j \in Tasks : pc[j] \in {"backoff", "done"} => HasErrorStatus(j))
    /\ [][\A i \in Tasks :
            /\ (pc[i] = "fetch" /\ pc'[i] = "backoff")
               => /\ \A j \in Tasks \ {i} :
                        pairs'[j] = pairs[j] /\ pc'[j] = pc[j] /\ locals'[j] = locals[j]
                  /\ signal_queue' = signal_queue
                  /\ Len(status_queue') = Len(status_queue) + 1
                  /\ SubSeq(status_queue', 1, Len(status_queue)) = status_queue
                  /\ SameKey(status_queue'[Len(status_queue')], pairs[i])
                  /\ run_pc' = run_pc
            /\ (pc'[i] # pc[i] \/ pairs'[i] # pairs[i] \/ locals'[i] # locals[i])
               => \A j \in Tasks \ {i} :
                     pairs'[j] = pairs[j] /\ pc'[j] = pc[j] /\ locals'[j] = locals[j]]_vars

\* C4 witness: one task has returned after its error while its sibling, still
\* in its loop, has since published a StatusUpdate and a Signal for a new bar.
C4_Witness ==
    \E i, j \in Tasks :
        /\ i # j
        /\ pc[i] = "done" /\ pc[j] = "sleep"
        /\ \E a, b \in 1..Len(status_queue) :
              /\ a < b
              /\ SameKey(status_queue[a], pairs[i]) /\ status_queue[a].error # None
              /\ SameKey(status_queue[b], pairs[j])
              /\ status_queue[b].last_ts = pairs[j].last_closed_ts
              /\ \E c \in 1..Len(signal_queue) :
                    /\ SameKey(signal_queue[c], pairs[j])
                    /\ Some(signal_queue[c].signal_time) = status_queue[b].last_ts

\* The window, the panic flag and the confirmation of the call of
\* compute_signal made in this step by task i.
CallWindow(i) == Get(pairs'[i].ohlcv)
CallPanic(i) == is_vix_spike(CallWindow(i))
CallConfirmed(i) == pairs'[i].state.accumulation_streak >= chips_confirmation_bars
CallResult(i) == Get(locals'[i].sig)

\* C6: a call that finds a pending signal and panic active fires no entry and
\* keeps the signal pending; a call that finds a pending signal and no panic
\* fires the entry and clears the flag, whatever the accumulation state; a
\* call that finds no pending signal and no panic leaves none and fires only
\* on a confirmed accumulation of its own bar.
C6_DeferredFiresOnce ==
    [][\A i \in Tasks : Called(i) =>
          LET held == pairs[i].state.pending_signal
              r == CallResult(i)
              after == pairs'[i].state.pending_signal
          IN  /\ (held /\ CallPanic(i)) => (~r.long_condition /\ after)
              /\ (held /\ ~CallPanic(i)) => (r.long_condition /\ ~after)
              /\ (~held /\ ~CallPanic(i))
                    => (~after /\ (r.long_condition => CallConfirmed(i)))]_vars

\* C6 witness: the pair's only entry has just fired, on its fourth bar and with
\* an accumulation streak of 0, which only a signal deferred on an earlier bar
\* can fire.
C6_Witness ==
    \E i \in Tasks :
        /\ pc[i] = "sleep"
        /\ locals[i].sig # None /\ Get(locals[i].sig).long_condition
        /\ locals[i].last_ts = pairs[i].last_closed_ts
        /\ pairs[i].state.accumulation_streak = 0
        /\ ~pairs[i].state.pending_signal
        /\ Len(status_queue) = Len(pairs) + 4
        /\ Len(signal_queue) = 1

\* C7: for every call, long_condition is true exactly when panic is not active
\* on the bar and accumulation is confirmed on it or a pending signal was held
\* over from an earlier bar.
C7_LongCondition ==
    [][\A i \in Tasks : Called(i) =>
          (CallResult(i).long_condition
             <=> (~CallPanic(i)
                  /\ (CallConfirmed(i) \/ pairs[i].state.pending_signal)))]_vars

\* C7 witness: an immediate entry has fired (accumulation confirmed on a calm
\* bar) for a pair that never deferred a signal.
C7_Witness ==
    \E i \in Tasks :
        /\ pc[i] = "sleep"
        /\ locals[i].sig # None /\ Get(locals[i].sig).long_condition
        /\ pairs[i].state.accumulation_streak >= chips_confirmation_bars
        /\ pairs[i].ohlcv # None /\ ~is_vix_spike(Get(pairs[i].ohlcv))
        /\ Len(status_queue) = Len(pairs) + 2

\* C8: every call makes accumulation_streak the previous streak plus 1 when
\* the bar's raw accumulation flag is true and 0 when it is false, and the
\* streak is never negative.
C8_StreakStep ==
    /\ [](\A i \in Tasks : pairs[i].state.accumulation_streak >= 0)
    /\ [][\A i \in Tasks : Called(i) =>
            pairs'[i].state.accumulation_streak =
               IF is_raw_accumulation(CallWindow(i))
               THEN pairs[i].state.accumulation_streak + 1
               ELSE 0]_vars

\* C8 witness: a streak of 3 has been reset to 0 by the pair's fourth bar.
C8_Witness ==
    \E i \in Tasks :
        /\ pairs[i].state.accumulation_streak = 0
        /\ Len(status_queue) = Len(pairs) + 4
        /\ Len(signal_queue) = 2
        /\ pairs[i].ohlcv # None /\ ~is_vix_spike(Get(pairs[i].ohlcv))
        /\ ~Get(locals[i].sig).long_condition

\* C9: the bars_since a call returns is never negative and is 0 whenever the
\* call returns long_condition true.
C9_BarsSince ==
    \A i \in Tasks :
        locals[i].sig # None
        => /\ Get(locals[i].sig).bars_since >= 0
           /\ Get(locals[i].sig).long_condition => Get(locals[i].sig).bars_since = 0

\* C9 witness: the pair's second entry has fired, on its third bar and on a
\* window of 60 rows, and moved last_signal_bar_index to that bar.
C9_Witness ==
    \E i \in Tasks :
        /\ locals[i].sig # None /\ Get(locals[i].sig).long_condition
        /\ Get(locals[i].sig).bars_since = 0
        /\ Len(signal_queue) = 2
        /\ pairs[i].state.last_signal_bar_index = Some(low_lookback_cm6 - 1)
        /\ Get(pairs[i].ohlcv).len = low_lookback_cm6
        /\ locals[i].last_ts = Some(3)

\* C10: a call on a window shorter than the longest period the entry decision
\* needs (the 60 rows of the accumulation lookback) returns long_condition
\* false.
C10_ShortWindowNoEntry ==
    \A i \in Tasks :
        (pairs[i].ohlcv # None /\ Get(pairs[i].ohlcv).len < low_lookback_cm6)
        => ~Get(locals[i].sig).long_condition

\* The elements of a list.
Range(seq) == {seq[k] : k \in 1..Len(seq)}

\* C11: once run has built the pairs, their tuples are exactly (whitelist
\* minus blacklist) x timeframes x market types, the market types being spot
\* plus futures when the exchange type is futures or both.
C11_PairSet ==
    run_pc \in {"gather", "returned"} =>
        {PairKey(pairs[i]) : i \in Tasks} =
            {<<sym, mt, tf>> :
                sym \in Range(config.whitelist) \ config.blacklist,
                mt \in {"spot"} \cup (IF config.exchange_type \in {"futures", "both"}
                                      THEN {"futures"} ELSE {}),
                tf \in Range(config.timeframes)}

\* C11 witness: of two whitelisted symbols one is blacklisted, and the other
\* has a spot and a futures pair on each of two timeframes.
C11_Witness ==
    /\ run_pc = "gather"
    /\ Cardinality(Range(config.whitelist)) = 2
    /\ Cardinality(config.blacklist) = 1
    /\ config.exchange_type = "futures"
    /\ Len(pairs) = 4

\* C12: no two PairStates (and so no two tasks) of a session have the same
\* (symbol, market type, timeframe).
C12_OnePairStatePerTuple ==
    \A i, j \in Tasks : PairKey(pairs[i]) = PairKey(pairs[j]) => i = j

\* C14: with an empty symbol whitelist run never gets to launch the tasks or
\* to return: the session ends with run raising.
C14_EmptyWhitelistFatal ==
    config.whitelist = <<>> => run_pc \in {"start", "raised"}


\* A status dict as run puts it: both last_ts and error present and None.
IsInitialStatus(s) ==
    /\ {"last_ts", "error"} \subseteq s.keys
    /\ s.last_ts = None
    /\ s.error = None

\* C13: before any pair task exists run has put one initial status per pair,
\* with last_ts and error unset, and in the status queue these come, in pair
\* order, before every status a pair task puts.
C13_InitialStatusesFirst ==
    /\ run_pc = "start" => pc = <<>> /\ status_queue = <<>>
    /\ run_pc \in {"gather", "returned"} =>
          /\ Len(status_queue) >= Len(pairs)
          /\ \A i \in Tasks :
                SameKey(status_queue[i], pairs[i]) /\ IsInitialStatus(status_queue[i])
          /\ \A k \in (Len(pairs) + 1)..Len(status_queue) :
                ~IsInitialStatus(status_queue[k])

\* Both tasks have put statuses after the two initial ones: a bar status of
\* the first pair and an error status of the second.
C13_Witness ==
    /\ Len(pairs) = 2
    /\ Len(status_queue) >= 4
    /\ \E k, l \in 3..Len(status_queue) :
          /\ SameKey(status_queue[k], pairs[1]) /\ status_queue[k].last_ts # None
          /\ SameKey(status_queue[l], pairs[2]) /\ status_queue[l].error # None

\* The positions of the error statuses of task i's pair in the status queue.
ErrorStatusesOf(i) ==
    {k \in 1..Len(status_queue) :
        SameKey(status_queue[k], pairs[i]) /\ status_queue[k].error # None}

\* C15: the step in which a task's data wait raises appends exactly one
\* status, which carries the pair's key and the error message, and enqueues
\* no signal; the task puts nothing more for that failure while it backs off
\* and returns; the queue holds one error status per failure of the pair; and
\* run is never made to raise by a task: it raises only before pairs exist.
C15_ErrorSurfacedAsStatus ==
    /\ [](\A i \in Tasks :
            Cardinality(ErrorStatusesOf(i)) = IF pc[i] \in {"backoff", "done"} THEN 1 ELSE 0)
    /\ [](run_pc = "raised" => pairs = <<>>)
    /\ [][\A i \in Tasks :
            /\ (pc[i] = "fetch" /\ pc'[i] = "backoff")
               => /\ \E msg \in ErrorMessages :
                        LET e == status_queue'[Len(status_queue')]
                        IN  /\ status_queue' = Append(status_queue, e)
                            /\ PairKey(e) = PairKey(pairs[i])
                            /\ "error" \in e.keys
                            /\ e.error = Some(msg)
                  /\ signal_queue' = signal_queue
                  /\ run_pc' = "gather"
            /\ (pc[i] = "backoff" /\ pc'[i] # "backoff")
               => /\ pc'[i] = "done"
                  /\ status_queue' = status_queue
                  /\ signal_queue' = signal_queue
                  /\ run_pc' = "gather"]_vars

\* C15 witness: a task that had published a bar and its signal failed and
\* returned; its error status is the last status of its pair, the signal
\* queue still holds only the signal of the bar, and run is still gathering.
C15_Witness ==
    \E i \in Tasks :
        /\ pc[i] = "done"
        /\ run_pc = "gather"
        /\ pairs[i].last_closed_ts # None
        /\ \E k \in ErrorStatusesOf(i) :
              /\ k > Len(pairs) + 1
              /\ \A l \in (k + 1)..Len(status_queue) : ~SameKey(status_queue[l], pairs[i])
        /\ Cardinality({c \in 1..Len(signal_queue) : SameKey(signal_queue[c], pairs[i])}) = 1

\* The timestamp of the last candle on which task i's pair fired an entry.
LastSignalTime(i) ==
    LET T == {signal_queue[c].signal_time :
                c \in {d \in 1..Len(signal_queue) : SameKey(signal_queue[d], pairs[i])}}
    IN  CHOOSE t \in T : \A u \in T : u <= t

\* C20: once a pair has fired an entry, the bars_since of its latest closed
\* candle is the number of candles since the firing candle, also when the
\* window now has the length it had when the entry fired.
C20_BarsSinceCountsCandles ==
    \A i \in Tasks :
        (/\ locals[i].sig # None
         /\ pairs[i].state.last_signal_bar_index = Some(Get(pairs[i].ohlcv).len - 1)
         /\ \E c \in 1..Len(signal_queue) : SameKey(signal_queue[c], pairs[i]))
        => Get(locals[i].sig).bars_since = Get(pairs[i].last_closed_ts) - LastSignalTime(i)

\* The pair keys of the first n dicts of queue q, and the last of those dicts
\* that has a given key.
KeysIn(q, n) == {PairKey(q[k]) : k \in 1..n}
Latest(q, n, key) ==
    q[CHOOSE k \in 1..n : PairKey(q[k]) = key /\ \A l \in (k + 1)..n : PairKey(q[l]) # key]

\* pair_status is the latest status per key of the first n dicts of q.
HoldsLatest(ps, q, n) ==
    /\ DOMAIN ps = KeysIn(q, n)
    /\ \A key \in DOMAIN ps : ps[key] = Latest(q, n, key)

\* C16: the status the dashboard holds for each pair key is the one most
\* recently enqueued for that key among the statuses it has taken; when a
\* drain ends (the queue reads empty) that is the most recent one enqueued,
\* however the tasks interleaved their puts; and taking a status of one key
\* leaves the statuses held for the other keys as they were.
C16_LastWriteWins ==
    /\ [](HoldsLatest(pair_status, status_queue, stat_read))
    /\ [][(ui_pc = "statuses" /\ ui_pc' = "idle")
            => HoldsLatest(pair_status', status_queue', Len(status_queue'))]_vars
    /\ [][IF stat_read' # stat_read
          THEN \A key \in DOMAIN pair_status :
                  key # PairKey(status_queue[stat_read + 1])
                  => key \in DOMAIN pair_status' /\ pair_status'[key] = pair_status[key]
          ELSE pair_status' = pair_status]_vars

\* C16 witness: the puts of the two tasks interleaved (a bar status of the
\* first pair, the error status of the second, a second bar status of the
\* first), the script has drained them all and holds the second bar status
\* for the first pair and the error status for the second.
C16_Witness ==
    /\ Len(pairs) = 2
    /\ ui_pc = "idle"
    /\ Len(status_queue) = 5
    /\ stat_read = 5
    /\ PairKey(status_queue[3]) = PairKey(pairs[1])
    /\ PairKey(status_queue[4]) = PairKey(pairs[2]) /\ status_queue[4].error # None
    /\ PairKey(status_queue[5]) = PairKey(pairs[1])
    /\ pair_status[PairKey(pairs[1])] = status_queue[5]
    /\ pair_status[PairKey(pairs[2])] = status_queue[4]

\* C17: once the script has drained the status queue, the status it holds
\* for a pair that has processed a closed candle reports that pair's last
\* closed timestamp, also when the pair's last status is an error status.
C17_LatestStatusHasLastTs ==
    \A i \in Tasks :
        (/\ ui_pc = "idle"
         /\ stat_read = Len(status_queue)
         /\ PairKey(pairs[i]) \in DOMAIN pair_status
         /\ pairs[i].last_closed_ts # None)
        => pair_status[PairKey(pairs[i])].last_ts = pairs[i].last_closed_ts

\* C19: rsi returns exactly 100 on every bar whose smoothed average loss is
\* zero, and every value it returns is a number in [0, 100].
C19_RsiZeroLossIs100 ==
    rsi_out # None =>
        LET series == [t \in 1..Len(close) |-> Num(close[t])]
            avg_loss == rsi_avg_loss(series, rsi_length)
            out == Get(rsi_out)
        IN  \A t \in 1..Len(close) :
                /\ ~IsNaN(out[t])
                /\ FLeq(Num(0), out[t]) /\ FLeq(out[t], Num(100))
                /\ (~IsNaN(avg_loss[t]) /\ avg_loss[t].num = 0) => out[t] = Num(100)

\* C18: once the scan session is stopped while the pair tasks run, the tasks
\* leave their loops at their next suspension point, so no step after the
\* stop enqueues a StatusUpdate or a Signal.
C18_StopEndsEnqueueing ==
    [][(~session_open /\ run_pc = "gather")
        => status_queue' = status_queue /\ signal_queue' = signal_queue]_vars

\* C21: accumulation is confirmed on a pair's closed candle only if the raw
\* flag holds on that candle and on the candle just before it in the series,
\* whichever candles the processed fetches ended on.
C21_ConfirmedNeedsConsecutiveBars ==
    \A i \in Tasks :
        (/\ pairs[i].last_closed_ts # None
         /\ pairs[i].state.accumulation_streak >= chips_confirmation_bars)
        => LET ts == Get(pairs[i].last_closed_ts)
           IN  /\ candle_raw[ts]
               /\ ts > 1
               /\ candle_raw[ts - 1]

\* C22: a call on a bar where accumulation is confirmed and panic is active
\* sets pending_signal and fires no entry; pending_signal goes from false to
\* true only in such a call and from true to false only in a call that fires
\* an entry on a calm bar; after every call pending_signal and long_condition
\* are not both true, pending_signal is true only if panic is active on the
\* bar, and the dict returned reports the flag the state holds; no other step
\* changes the flag.
C22_PendingOnlyUnderPanic ==
    [][\A i \in Tasks :
          LET held == pairs[i].state.pending_signal
              after == pairs'[i].state.pending_signal
          IN  IF Called(i)
              THEN LET r == CallResult(i)
                   IN  /\ (CallConfirmed(i) /\ CallPanic(i)) => (after /\ ~r.long_condition)
                       /\ (~held /\ after) => (CallConfirmed(i) /\ CallPanic(i))
                       /\ (held /\ ~after) => (r.long_condition /\ ~CallPanic(i))
                       /\ ~(after /\ r.long_condition)
                       /\ after => CallPanic(i)
                       /\ r.pending_signal = after
              ELSE after = held]_vars

\* C22 witness: the pair's last call found accumulation confirmed on a bar
\* with panic active: the signal is pending, no entry has fired and the
\* signal queue is empty.
C22_Witness ==
    \E i \in Tasks :
        /\ pc[i] = "sleep"
        /\ locals[i].sig # None
        /\ Get(locals[i].sig).pending_signal /\ ~Get(locals[i].sig).long_condition
        /\ pairs[i].state.pending_signal
        /\ pairs[i].state.accumulation_streak >= chips_confirmation_bars
        /\ is_vix_spike(Get(pairs[i].ohlcv))
        /\ locals[i].last_ts = pairs[i].last_closed_ts
        /\ signal_queue = <<>>

\* C23: in pull mode two pair tasks that have each come back to the data wait
\* after a completed pass never have a fetch in flight on the same
\* connection at the same time.
C23_FetchesSerialized ==
    \A i, j \in Tasks :
        (/\ i # j
         /\ InFlight(i) /\ locals[i].last_ts # None
         /\ InFlight(j) /\ locals[j].last_ts # None)
        => Connection(i) # Connection(j)

\* The two calls agree on the bar's raw accumulation flag and panic flag.
SameFlags(x) ==
    /\ is_raw_accumulation(x.plain) = is_raw_accumulation(x.other)
    /\ is_vix_spike(x.plain) = is_vix_spike(x.other)

\* The two calls return the same long_condition and pending_signal and leave
\* the same accumulation_streak and last_signal_bar_index.
SameDecision(r) ==
    /\ r.plain.sig.long_condition = r.other.sig.long_condition
    /\ r.plain.sig.pending_signal = r.other.sig.pending_signal
    /\ r.plain.state.pending_signal = r.other.state.pending_signal
    /\ r.plain.state.accumulation_streak = r.other.state.accumulation_streak
    /\ r.plain.state.last_signal_bar_index = r.other.state.last_signal_bar_index

====
